---- MODULE Spec2Model ----
(***************************************************************************)
(* A model of process/stereo/shared.py: the StereoProcessor class, its     *)
(* construction (relative pose, model dispatch, rectification parameters,  *)
(* remap tables) and its post-construction methods (ROI mask, 16/8-bit     *)
(* normalisation, shift-down, disparity to depth, pixel to 3-D).           *)
(*                                                                         *)
(* Numbers held in numpy float arrays are modelled as extended rationals:  *)
(* <<n, d>> with d > 0 in lowest terms is the finite value n/d, <<1, 0>>   *)
(* is +inf, <<-1, 0>> is -inf and <<0, 0>> is NaN.  Arithmetic on them is  *)
(* IEEE-754 arithmetic without rounding and without a negative zero.       *)
(***************************************************************************)
EXTENDS Integers, Sequences, FiniteSets, TLC

\* ------------------------------------------------------------------ bounds
\* Most pixels (rows * columns) of a disparity map handed to a static method.
MaxPixels == 2
\* Finite disparity values of those maps range over -1 .. MaxDisp.
MaxDisp == 3
\* Most rows and most columns of a disparity map handed to apply_roi_to_disparity.
MaxSide == 2
\* Most numbers in a 2-D array handed to points_px_to_3d_world_space.
MaxElems == 6
\* Most numbers in a 1-D array handed to it.
MaxFlat == 3
\* Those numbers are 0 and MaxCoord.
MaxCoord == 1
\* Most rectification runs on one instance, the one of __init__ included.
MaxRuns == 2

\* ------------------------------------------------------- program constants
\* np.iinfo(np.uint16).max and np.iinfo(np.uint8).max
UInt16Max == 65535
UInt8Max == 255
\* cv2.CALIB_ZERO_DISPARITY
CALIB_ZERO_DISPARITY == 1024

\* ------------------------------------------------------------- float values
Abs(i) == IF i < 0 THEN -i ELSE i
Sign(i) == IF i < 0 THEN -1 ELSE IF i > 0 THEN 1 ELSE 0

RECURSIVE GCD(_, _)
GCD(a, b) == IF b = 0 THEN a ELSE GCD(b, a % b)

Fin(i) == <<i, 1>>
PosInf == <<1, 0>>
NegInf == <<-1, 0>>
NaN == <<0, 0>>

IsNaN(a) == a = NaN
IsInf(a) == a = PosInf \/ a = NegInf
IsFinite(a) == a[2] # 0

\* n/d in lowest terms with a positive denominator (d # 0).
Ratio(n, d) ==
    LET g == GCD(Abs(n), Abs(d))
    IN  <<(Sign(d) * n) \div g, Abs(d) \div g>>

FNeg(a) == <<-a[1], a[2]>>

FAdd(a, b) ==
    IF IsNaN(a) \/ IsNaN(b) THEN NaN
    ELSE IF IsInf(a) THEN (IF IsInf(b) /\ a # b THEN NaN ELSE a)
    ELSE IF IsInf(b) THEN b
    ELSE Ratio(a[1] * b[2] + b[1] * a[2], a[2] * b[2])

FSub(a, b) == FAdd(a, FNeg(b))

FMul(a, b) ==
    IF IsNaN(a) \/ IsNaN(b) THEN NaN
    ELSE IF IsInf(a) \/ IsInf(b)
         THEN (IF a[1] = 0 \/ b[1] = 0 THEN NaN
               ELSE IF Sign(a[1]) * Sign(b[1]) > 0 THEN PosInf ELSE NegInf)
    ELSE Ratio(a[1] * b[1], a[2] * b[2])

FDiv(a, b) ==
    IF IsNaN(a) \/ IsNaN(b) THEN NaN
    ELSE IF IsInf(a)
         THEN (IF IsInf(b) THEN NaN
               ELSE IF Sign(a[1]) * (IF b[1] < 0 THEN -1 ELSE 1) > 0 THEN PosInf ELSE NegInf)
    ELSE IF IsInf(b) THEN Fin(0)
    ELSE IF b[1] = 0
         THEN (IF a[1] = 0 THEN NaN ELSE IF a[1] > 0 THEN PosInf ELSE NegInf)
    ELSE Ratio(a[1] * b[2], a[2] * b[1])

\* a < b, a <= b, a == b, a != b as numpy compares floats (NaN compares false).
FLt(a, b) ==
    /\ ~IsNaN(a)
    /\ ~IsNaN(b)
    /\ a # b
    /\ IF a = NegInf \/ b = PosInf THEN TRUE
       ELSE IF a = PosInf \/ b = NegInf THEN FALSE
       ELSE a[1] * b[2] < b[1] * a[2]

FLe(a, b) == ~IsNaN(a) /\ ~IsNaN(b) /\ (a = b \/ FLt(a, b))
FEq(a, b) == ~IsNaN(a) /\ ~IsNaN(b) /\ a = b
FNe(a, b) == ~FEq(a, b)

\* The integer a finite value truncates to (towards zero).
Trunc(a) == Sign(a[1]) * (Abs(a[1]) \div a[2])

\* ndarray.max() and ndarray.min() over a non-empty sequence: NaN propagates.
RECURSIVE ArrMax(_)
ArrMax(s) ==
    IF Len(s) = 1 THEN s[1]
    ELSE LET m == ArrMax(Tail(s))
         IN  IF IsNaN(s[1]) \/ IsNaN(m) THEN NaN
             ELSE IF FLt(m, s[1]) THEN s[1] ELSE m

RECURSIVE ArrMin(_)
ArrMin(s) ==
    IF Len(s) = 1 THEN s[1]
    ELSE LET m == ArrMin(Tail(s))
         IN  IF IsNaN(s[1]) \/ IsNaN(m) THEN NaN
             ELSE IF FLt(s[1], m) THEN s[1] ELSE m

\* ------------------------------------------------------------ 3x3 matrices
Identity3 == <<<<1, 0, 0>>, <<0, 1, 0>>, <<0, 0, 1>>>>

MatMul(A, B) ==
    [i \in 1..3 |-> [j \in 1..3 |-> A[i][1] * B[1][j] + A[i][2] * B[2][j] + A[i][3] * B[3][j]]]

MatVec(A, v) == [i \in 1..3 |-> A[i][1] * v[1] + A[i][2] * v[2] + A[i][3] * v[3]]

Transpose(A) == [i \in 1..3 |-> [j \in 1..3 |-> A[j][i]]]

Nxt3(i) == (i % 3) + 1

Cofactor(A, i, j) ==
    A[Nxt3(i)][Nxt3(j)] * A[Nxt3(Nxt3(i))][Nxt3(Nxt3(j))]
        - A[Nxt3(i)][Nxt3(Nxt3(j))] * A[Nxt3(Nxt3(i))][Nxt3(j)]

Det3(A) == A[1][1] * Cofactor(A, 1, 1) + A[1][2] * Cofactor(A, 1, 2) + A[1][3] * Cofactor(A, 1, 3)

\* np.linalg.inv of a matrix with determinant 1 or -1 (every matrix Rodrigues returns here).
Inv3(A) == [i \in 1..3 |-> [j \in 1..3 |-> Cofactor(A, j, i) * Det3(A)]]

\* cv2.Rodrigues on a rotation vector about the z axis, the angle counted in
\* quarter turns: <<0, 0, k>> is the rotation by k * pi/2.
Cos4(k) == <<1, 0, -1, 0>>[(k % 4) + 1]
Sin4(k) == <<0, 1, 0, -1>>[(k % 4) + 1]
Rodrigues(rvec) ==
    <<<<Cos4(rvec[3]), -Sin4(rvec[3]), 0>>,
      <<Sin4(rvec[3]), Cos4(rvec[3]), 0>>,
      <<0, 0, 1>>>>

\* cv2.Rodrigues on the matrix of a rotation about the z axis: its rotation
\* vector, of angle -pi/2, 0, pi/2 or pi.
RodriguesVec(R) == CHOOSE rvec \in {<<0, 0, k>> : k \in -1..2} : Rodrigues(rvec) = R

\* np.linalg.norm of a 3-vector whose squared length is a perfect square.
Norm3(v) ==
    LET q == v[1] * v[1] + v[2] * v[2] + v[3] * v[3]
    IN  CHOOSE n \in 0..q : n * n = q

\* ------------------------------------------------------------ calibrations
\* A Calibration record as StereoProcessor reads it: image size, camera model,
\* pose (rvec in quarter turns about z, tvec in mm), intrinsic matrix, distortion.
CameraMatrix(fx, fy, cx, cy) == <<<<fx, 0, cx>>, <<0, fy, cy>>, <<0, 0, 1>>>>

Cal(w, h, model, rvec, tvec, K, dist) ==
    [image_width |-> w, image_height |-> h, camera_model |-> model,
     rvec |-> rvec, tvec |-> tvec, cameraMatrix |-> K, distCoeffs |-> dist]

CalA == Cal(2, 2, "OpenCV", <<0, 0, 0>>, <<0, 0, 0>>, CameraMatrix(2, 4, 1, 0), "distA")
CalB == Cal(2, 2, "OpenCV", <<0, 0, 1>>, <<3, 4, 0>>, CameraMatrix(1, 2, 0, 1), "distB")
CalF == Cal(2, 2, "OpenCVFisheye", <<0, 0, 0>>, <<0, 0, 0>>, CameraMatrix(2, 2, 1, 1), "distF")
CalW == Cal(3, 2, "OpenCVFisheye", <<0, 0, 2>>, <<0, 0, 2>>, CameraMatrix(2, 2, 1, 1), "distF")
CalH == Cal(2, 3, "OpenCVFisheye", <<0, 0, 0>>, <<2, 0, 0>>, CameraMatrix(2, 2, 1, 1), "distF")
CalO == Cal(2, 2, "Other", <<0, 0, 0>>, <<0, 4, 3>>, CameraMatrix(2, 2, 1, 1), "distO")

Calibrations == {CalA, CalB, CalF, CalW, CalH, CalO}

\* Calibration.focallength_px
focallength_px(cal) == cal.cameraMatrix[1][1]

\* ------------------------------------------------------- the opencv library
\* The error of a call that raised none.
NoError == "none"

\* An unset attribute is <<>>; a set one is <<value>>.
Unset == <<>>
Some(v) == <<v>>
Val(o) == o[1]

\* --------------------------------------------------------------- the state
VARIABLES
    phase,    \* "new": no instance yet; "ready": __init__ returned; "failed": __init__ raised
    self,     \* the attributes of the StereoProcessor instance
    ran,      \* the rectification paths run so far, in order
    call      \* the call last made: its operation, argument, result and error

vars == <<phase, self, ran, call>>

NoSelf ==
    [calibration_left |-> Unset, calibration_right |-> Unset, image_size |-> Unset,
     camera_model |-> Unset, r1 |-> Unset, r2 |-> Unset, R |-> Unset, T |-> Unset,
     params |-> Unset, map_left |-> Unset, map_right |-> Unset]

\* The cached derived state of an instance.
Derived(s) == <<s.image_size, s.camera_model, s.R, s.T, s.params, s.map_left, s.map_right>>

\* prev holds the argument of the call before, when this call's argument is that call's result.
Idle == [op |-> "idle", arg |-> <<>>, res |-> <<>>, err |-> NoError, prev |-> <<>>]
Called(op, arg, res, err) == [op |-> op, arg |-> arg, res |-> res, err |-> err, prev |-> <<>>]

\* The rectangles cv2.stereoRectify can report as a valid ROI of a w x h image:
\* a rectangle clipped to the image, or the empty rectangle (0, 0, 0, 0).
RoiChoices(size) ==
    {r \in (0..size[1]) \X (0..size[2]) \X (1..size[1]) \X (1..size[2]) :
        r[1] + r[3] <= size[1] /\ r[2] + r[4] <= size[2]}
        \cup {<<0, 0, 0, 0>>}

\* The right image's valid ROI, which no method reads: the whole image stands for it.
RoiChoicesRight(size) == {<<0, 0, size[1], size[2]>>}

\* The arguments cv2.stereoRectify is called with.
RectifyArgs(s) ==
    [K1 |-> Val(s.calibration_left).cameraMatrix, D1 |-> Val(s.calibration_left).distCoeffs,
     K2 |-> Val(s.calibration_right).cameraMatrix, D2 |-> Val(s.calibration_right).distCoeffs,
     size |-> Val(s.image_size), R |-> RodriguesVec(Val(s.R)), T |-> Val(s.T),
     flags |-> CALIB_ZERO_DISPARITY, alpha |-> -1]

\* The arguments cv2.fisheye.stereoRectify is called with: no alpha.
FisheyeRectifyArgs(s) ==
    [K1 |-> Val(s.calibration_left).cameraMatrix, D1 |-> Val(s.calibration_left).distCoeffs,
     K2 |-> Val(s.calibration_right).cameraMatrix, D2 |-> Val(s.calibration_right).distCoeffs,
     size |-> Val(s.image_size), R |-> RodriguesVec(Val(s.R)), T |-> Val(s.T),
     flags |-> CALIB_ZERO_DISPARITY]

\* One output matrix of a library call: the call and the output's name stand for its value.
LibOut(fn, out, args) == [fn |-> fn, out |-> out, args |-> args]

\* StereoParams.__init__
StereoParams(R1, R2, P1, P2, Q, validROI1, validROI2) ==
    [R1 |-> R1, R2 |-> R2, P1 |-> P1, P2 |-> P2, Q |-> Q,
     validROI1 |-> validROI1, validROI2 |-> validROI2]

\* cv2.initUndistortRectifyMap / cv2.fisheye.initUndistortRectifyMap: the map pair.
InitUndistortRectifyMap(fn, cal, R, P, size) ==
    [fn |-> fn, K |-> cal.cameraMatrix, D |-> cal.distCoeffs, R |-> R, P |-> P,
     size |-> size, m1type |-> "CV_16SC2"]

\* ------------------------------------------------------------------ arrays
\* A 2-D array is its row count h, its column count w and its elements in row-major order.
Mat(h, w, d) == [h |-> h, w |-> w, d |-> d]
At(m, r, c) == m.d[(r - 1) * m.w + c]

MapsOver(vals, shapes) ==
    UNION {{Mat(sh[1], sh[2], d) : d \in [1..(sh[1] * sh[2]) -> vals]} : sh \in shapes}

\* The disparity maps the static methods are called with.
DispVals == {Fin(i) : i \in -1..MaxDisp} \cup {PosInf, NegInf, NaN}
DispMaps == MapsOver(DispVals, {sh \in (1..MaxPixels) \X (1..MaxPixels) : sh[1] * sh[2] <= MaxPixels})
\* The ones an instance's caller passes to them between its other calls.
FewMaps == MapsOver(DispVals, {<<1, 1>>})

\* The disparity maps apply_roi_to_disparity is called with.
RoiMaps == {Mat(h, w, [i \in 1..(h * w) |-> Fin(i)]) : h \in 1..MaxSide, w \in 1..MaxSide}

\* The arrays points_px_to_3d_world_space is called with: 1-D, n x 2, n x 3 and
\* n x 4; an array is its shape and its elements in row-major order.
Arr(shape, d) == [shape |-> shape, d |-> d]
PointVals == {Fin(0), Fin(MaxCoord)}
PointShapes ==
    {<<k>> : k \in 0..MaxFlat}
        \cup {sh \in (0..MaxElems) \X {2, 3, 4} : sh[1] * sh[2] <= MaxElems}
Size(shape) == IF Len(shape) = 1 THEN shape[1] ELSE shape[1] * shape[2]
PointArrays == UNION {{Arr(sh, d) : d \in [1..Size(sh) -> PointVals]} : sh \in PointShapes}

\* The images remap is called with.
Images == {"image0", "image1"}

\* ------------------------------------------------------- the static methods
\* float -> unsigned integer of ndarray.astype.  A value whose truncation is not
\* in 0 .. max, an infinity and NaN are undefined behaviour of the C cast: the
\* build either keeps the low bits of the truncated integer ("wrap", NaN and
\* the infinities giving 0) or saturates ("saturate", NaN giving 0).
CastOutcomes == {"wrap", "saturate"}
AsTypeUInt(x, max, ub) ==
    IF IsNaN(x) THEN 0
    ELSE IF IsInf(x) THEN (IF ub = "saturate" /\ x = PosInf THEN max ELSE 0)
    ELSE IF Trunc(x) >= 0 /\ Trunc(x) <= max THEN Trunc(x)
    ELSE IF ub = "wrap" THEN Trunc(x) % (max + 1)
    ELSE IF Trunc(x) < 0 THEN 0 ELSE max

\* invalid = np.logical_or(disparity == np.inf, disparity != disparity)
Invalid(v) == FEq(v, PosInf) \/ FNe(v, v)

\* The body the two normalise methods share: the result map and the error raised.
\* disparity[~invalid].max() raises ValueError on an empty selection.
Normalise(disparity, new_max_value, ub) ==
    LET valid == SelectSeq(disparity.d, LAMBDA v : ~Invalid(v))
    IN  IF Len(valid) = 0 THEN [res |-> <<>>, err |-> "ValueError"]
        ELSE LET m == ArrMax(valid)
                 old_max == IF FLe(m, Fin(0)) THEN Fin(1) ELSE m
             IN  [res |-> Mat(disparity.h, disparity.w,
                              [i \in 1..Len(disparity.d) |->
                                  AsTypeUInt(FMul(FDiv(disparity.d[i], old_max), Fin(new_max_value)),
                                             new_max_value, ub)]),
                  err |-> NoError]

\* StereoProcessor.normalise_disparity_16b
normalise_disparity_16b(disparity, ub) == Normalise(disparity, UInt16Max, ub)

\* StereoProcessor.normalise_disparity_8b
normalise_disparity_8b(disparity, ub) == Normalise(disparity, UInt8Max, ub)

\* A shift that subtracts non_zero_min - 1, leaving the least value at 1.
shift_disp_down_to_one(disparity) ==
    IF FLe(ArrMax(disparity.d), Fin(0)) THEN disparity
    ELSE LET non_zero_min == ArrMin(SelectSeq(disparity.d, LAMBDA v : FNe(v, Fin(0))))
         IN  Mat(disparity.h, disparity.w,
                 [i \in 1..Len(disparity.d) |->
                     IF FLt(FSub(disparity.d[i], FSub(non_zero_min, Fin(1))), Fin(0)) THEN Fin(0)
                     ELSE FSub(disparity.d[i], FSub(non_zero_min, Fin(1)))])

\* StereoProcessor.shift_disp_down
shift_disp_down(disparity) ==
    IF FLe(ArrMax(disparity.d), Fin(0)) THEN disparity
    ELSE LET non_zero_min == ArrMin(SelectSeq(disparity.d, LAMBDA v : FNe(v, Fin(0))))
             disparity_false == [i \in 1..Len(disparity.d) |->
                                    FSub(disparity.d[i], FAdd(non_zero_min, Fin(1)))]
         IN  Mat(disparity.h, disparity.w,
                 [i \in 1..Len(disparity.d) |->
                     IF FLt(disparity_false[i], Fin(0)) THEN Fin(0) ELSE disparity_false[i]])

\* ----------------------------------------------------- the instance methods
\* The bound a Python slice start:stop takes on an axis of length n.
SliceBound(i, n) == IF i < 0 THEN (IF i + n < 0 THEN 0 ELSE i + n) ELSE IF i > n THEN n ELSE i

\* Whether 1-based index k lies in the Python slice start:stop of an axis of length n.
InSlice(k, start, stop, n) == SliceBound(start, n) < k /\ k <= SliceBound(stop, n)

\* A mask that tests only the ROI's length: len(None) raises TypeError.
apply_roi_to_disparity_no_none_test(s, disparity) ==
    LET roi == Val(s.params).validROI1
    IN  IF roi = Unset THEN [res |-> <<>>, err |-> "TypeError"]
        ELSE IF Len(Val(roi)) # 4 THEN [res |-> <<>>, err |-> "ValueError"]
        ELSE [res |-> disparity, err |-> NoError]

\* A mask that slices rows by x and w, and columns by y and h.
apply_roi_to_disparity_swapped(s, disparity) ==
    LET roi == Val(s.params).validROI1
    IN  IF roi = Unset \/ Len(Val(roi)) # 4 THEN [res |-> <<>>, err |-> "ValueError"]
        ELSE [res |-> Mat(disparity.h, disparity.w,
                          [i \in 1..Len(disparity.d) |->
                              IF /\ InSlice(((i - 1) \div disparity.w) + 1, Val(roi)[1],
                                            Val(roi)[1] + Val(roi)[3], disparity.h)
                                 /\ InSlice(((i - 1) % disparity.w) + 1, Val(roi)[2],
                                            Val(roi)[2] + Val(roi)[4], disparity.w)
                              THEN disparity.d[i] ELSE Fin(0)]),
              err |-> NoError]

\* StereoProcessor.apply_roi_to_disparity: the result map and the error raised.
apply_roi_to_disparity(s, disparity) ==
    LET roi == Val(s.params).validROI1
    IN  IF roi = Unset \/ Len(Val(roi)) # 4 THEN [res |-> <<>>, err |-> "ValueError"]
        ELSE LET x == Val(roi)[1]
                 y == Val(roi)[2]
                 w == Val(roi)[3]
                 h == Val(roi)[4]
             IN  [res |-> Mat(disparity.h, disparity.w,
                              [i \in 1..Len(disparity.d) |->
                                  IF /\ InSlice(((i - 1) \div disparity.w) + 1, y, y + h, disparity.h)
                                     /\ InSlice(((i - 1) % disparity.w) + 1, x, x + w, disparity.w)
                                  THEN disparity.d[i] ELSE Fin(0)]),
                  err |-> NoError]

\* StereoProcessor.remap
remap(s, left, right) ==
    <<LibOut("cv2.remap", "dst", [src |-> left, maps |-> Val(s.map_left), interpolation |-> "INTER_LINEAR"]),
      LibOut("cv2.remap", "dst", [src |-> right, maps |-> Val(s.map_right), interpolation |-> "INTER_LINEAR"])>>

\* StereoProcessor.baseline_mm
baseline_mm(s) == Fin(Norm3(Val(s.T)))

\* StereoProcessor.disparity_to_depth_mm
disparity_to_depth_mm(s, disparity_value) ==
    LET doffs == Fin(0)
    IN  FDiv(FMul(Fin(Norm3(Val(s.T))), Fin(focallength_px(Val(s.calibration_left)))),
             FAdd(disparity_value, doffs))

\* One row of the result of points_px_to_3d_world_space.
PointTo3d(s, point) ==
    LET K == Val(s.calibration_left).cameraMatrix
        z == disparity_to_depth_mm(s, point[3])
    IN  <<FMul(FDiv(FSub(point[1], Fin(K[1][3])), Fin(K[1][1])), z),
          FMul(FDiv(FSub(point[2], Fin(K[2][3])), Fin(K[2][2])), z),
          z>>

\* StereoProcessor.points_px_to_3d_world_space: the result array and the error
\* raised.  reshape(-1, 1, 3) raises ValueError unless the element count is a
\* multiple of 3 and reads the elements three by three whatever the shape was;
\* np.array of an empty list of rows is 1-D.
points_px_to_3d_world_space(s, points_px) ==
    LET size == Size(points_px.shape)
        n == size \div 3
        result == [i \in 1..n |-> PointTo3d(s, SubSeq(points_px.d, 3 * i - 2, 3 * i))]
    IN  IF size % 3 # 0 THEN [res |-> <<>>, err |-> "ValueError"]
        ELSE IF n = 0 THEN [res |-> Arr(<<0>>, <<>>), err |-> NoError]
        ELSE [res |-> Arr(<<n, 3>>, [j \in 1..(3 * n) |-> result[((j - 1) \div 3) + 1][((j - 1) % 3) + 1]]),
              err |-> NoError]

\* ------------------------------------------------------------ construction
\* StereoProcessor.init_opencv_model_params
init_opencv_model_params(s, roi1, roi2) ==
    LET a == RectifyArgs(s)
        p == StereoParams(LibOut("cv2.stereoRectify", "R1", a), LibOut("cv2.stereoRectify", "R2", a),
                          LibOut("cv2.stereoRectify", "P1", a), LibOut("cv2.stereoRectify", "P2", a),
                          LibOut("cv2.stereoRectify", "Q", a), Some(roi1), Some(roi2))
    IN  [s EXCEPT !.params = Some(p),
                  !.map_left = Some(InitUndistortRectifyMap("cv2.initUndistortRectifyMap",
                                        Val(s.calibration_left), p.R1, p.P1, Val(s.image_size))),
                  !.map_right = Some(InitUndistortRectifyMap("cv2.initUndistortRectifyMap",
                                        Val(s.calibration_right), p.R2, p.P2, Val(s.image_size)))]

\* StereoProcessor.init_opencvfisheye_model_params: cv2.fisheye.stereoRectify
\* returns five matrices and no ROI, so both ROIs keep StereoParams' default None.
init_opencvfisheye_model_params(s) ==
    LET a == FisheyeRectifyArgs(s)
        p == StereoParams(LibOut("cv2.fisheye.stereoRectify", "R1", a),
                          LibOut("cv2.fisheye.stereoRectify", "R2", a),
                          LibOut("cv2.fisheye.stereoRectify", "P1", a),
                          LibOut("cv2.fisheye.stereoRectify", "P2", a),
                          LibOut("cv2.fisheye.stereoRectify", "Q", a), Unset, Unset)
    IN  [s EXCEPT !.params = Some(p),
                  !.map_left = Some(InitUndistortRectifyMap("cv2.fisheye.initUndistortRectifyMap",
                                        Val(s.calibration_left), p.R1, p.P1, Val(s.image_size))),
                  !.map_right = Some(InitUndistortRectifyMap("cv2.fisheye.initUndistortRectifyMap",
                                        Val(s.calibration_right), p.R2, p.P2, Val(s.image_size)))]

\* The relative pose of init_stereo_params: R = inv(r1) . r2, T = r1^T . t2 - r1^T . t1.
RelativePose(s) ==
    LET r1 == Rodrigues(Val(s.calibration_left).rvec)
        r2 == Rodrigues(Val(s.calibration_right).rvec)
        a == MatVec(Transpose(r1), Val(s.calibration_right).tvec)
        b == MatVec(Transpose(r1), Val(s.calibration_left).tvec)
    IN  [s EXCEPT !.r1 = Some(r1), !.r2 = Some(r2),
                  !.R = Some(MatMul(Inv3(r1), r2)),
                  !.T = Some([i \in 1..3 |-> a[i] - b[i]])]

\* A dispatch that takes every model but the fisheye one for OpenCV's.
ModelDispatchDefaulting(s, roi1, roi2) ==
    IF Val(s.camera_model) = "OpenCVFisheye"
    THEN [self |-> init_opencvfisheye_model_params(s), err |-> NoError, ran |-> <<"fisheye">>]
    ELSE [self |-> init_opencv_model_params(s, roi1, roi2), err |-> NoError, ran |-> <<"opencv">>]

\* The dispatch of init_stereo_params on the camera model: the instance, the
\* error raised and the rectification path run.
ModelDispatch(s, roi1, roi2) ==
    IF Val(s.camera_model) = "OpenCV"
    THEN [self |-> init_opencv_model_params(s, roi1, roi2), err |-> NoError, ran |-> <<"opencv">>]
    ELSE IF Val(s.camera_model) = "OpenCVFisheye"
    THEN [self |-> init_opencvfisheye_model_params(s), err |-> NoError, ran |-> <<"fisheye">>]
    ELSE [self |-> s, err |-> "NotImplementedError", ran |-> <<>>]

\* StereoProcessor.init_stereo_params
init_stereo_params(s, roi1, roi2) == ModelDispatch(RelativePose(s), roi1, roi2)

\* A mismatch test that forgets the camera model.
CalibrationMismatchSizesOnly(left, right) ==
    \/ left.image_width # right.image_width
    \/ left.image_height # right.image_height

\* The test of __init__ on the two calibrations.
CalibrationMismatch(left, right) ==
    \/ left.image_width # right.image_width
    \/ left.image_height # right.image_height
    \/ left.camera_model # right.camera_model

\* StereoProcessor.__init__
StereoProcessorInit(left, right, roi1, roi2) ==
    LET s0 == [NoSelf EXCEPT !.calibration_left = Some(left), !.calibration_right = Some(right)]
    IN  IF CalibrationMismatch(left, right)
        THEN [self |-> s0, err |-> "ValueError", ran |-> <<>>]
        ELSE init_stereo_params(
                 [s0 EXCEPT !.image_size = Some(<<left.image_width, left.image_height>>),
                            !.camera_model = Some(left.camera_model)],
                 roi1, roi2)

Construct ==
    /\ phase = "new"
    /\ call = Idle
    /\ \E left \in Calibrations, right \in Calibrations :
         \E roi1 \in RoiChoices(<<left.image_width, left.image_height>>),
            roi2 \in RoiChoicesRight(<<left.image_width, left.image_height>>) :
            LET out == StereoProcessorInit(left, right, roi1, roi2)
            IN  /\ self' = out.self
                /\ ran' = ran \o out.ran
                /\ phase' = IF out.err = NoError THEN "ready" ELSE "failed"
                /\ call' = Called("__init__", <<left, right>>, <<>>, out.err)

Init ==
    /\ phase = "new"
    /\ self = NoSelf
    /\ ran = <<>>
    /\ call = Idle

\* ------------------------------------------------------------------- calls
ApplyRoiToDisparity ==
    /\ phase = "ready"
    /\ call = Idle
    /\ \E disparity \in RoiMaps :
         LET out == apply_roi_to_disparity(self, disparity)
         IN  call' = Called("apply_roi_to_disparity", disparity, out.res, out.err)
    /\ UNCHANGED <<phase, self, ran>>

\* A remap that keeps the rectified left image where the left table was.
RemapOverwritingTable ==
    /\ phase = "ready"
    /\ call = Idle
    /\ \E left \in Images, right \in Images :
         /\ call' = Called("remap", <<left, right>>, remap(self, left, right), NoError)
         /\ self' = [self EXCEPT !.map_left = Some(remap(self, left, right)[1])]
    /\ UNCHANGED <<phase, ran>>

Remap ==
    /\ phase = "ready"
    /\ call = Idle
    /\ \E left \in Images, right \in Images :
         call' = Called("remap", <<left, right>>, remap(self, left, right), NoError)
    /\ UNCHANGED <<phase, self, ran>>

CalculateDisparity ==
    /\ phase = "ready"
    /\ call = Idle
    /\ \E left \in Images, right \in Images :
         call' = Called("calculate_disparity", <<left, right>>, <<>>, "NotImplementedError")
    /\ UNCHANGED <<phase, self, ran>>

BaselineMm ==
    /\ phase = "ready"
    /\ call = Idle
    /\ call' = Called("baseline_mm", <<>>, baseline_mm(self), NoError)
    /\ UNCHANGED <<phase, self, ran>>

DisparityToDepthMm ==
    /\ phase = "ready"
    /\ call = Idle
    /\ \E v \in PointVals :
         call' = Called("disparity_to_depth_mm", v, disparity_to_depth_mm(self, v), NoError)
    /\ UNCHANGED <<phase, self, ran>>

PointsPxTo3dWorldSpace ==
    /\ phase = "ready"
    /\ call = Idle
    /\ \E points_px \in PointArrays :
         LET out == points_px_to_3d_world_space(self, points_px)
         IN  call' = Called("points_px_to_3d_world_space", points_px, out.res, out.err)
    /\ UNCHANGED <<phase, self, ran>>

\* The three initialisers are public: a caller can run them again on a
\* constructed instance, and each run asks the library anew.
InitStereoParams ==
    /\ phase = "ready"
    /\ call = Idle
    /\ Len(ran) < MaxRuns
    /\ \E roi1 \in RoiChoices(Val(self.image_size)), roi2 \in RoiChoicesRight(Val(self.image_size)) :
         LET out == init_stereo_params(self, roi1, roi2)
         IN  /\ self' = out.self
             /\ ran' = ran \o out.ran
             /\ call' = Called("init_stereo_params", <<>>, <<>>, out.err)
    /\ UNCHANGED phase

InitOpencvModelParams ==
    /\ phase = "ready"
    /\ call = Idle
    /\ Len(ran) < MaxRuns
    /\ \E roi1 \in RoiChoices(Val(self.image_size)), roi2 \in RoiChoicesRight(Val(self.image_size)) :
         self' = init_opencv_model_params(self, roi1, roi2)
    /\ ran' = Append(ran, "opencv")
    /\ call' = Called("init_opencv_model_params", <<>>, <<>>, NoError)
    /\ UNCHANGED phase

InitOpencvfisheyeModelParams ==
    /\ phase = "ready"
    /\ call = Idle
    /\ Len(ran) < MaxRuns
    /\ self' = init_opencvfisheye_model_params(self)
    /\ ran' = Append(ran, "fisheye")
    /\ call' = Called("init_opencvfisheye_model_params", <<>>, <<>>, NoError)
    /\ UNCHANGED phase

\* The static methods need no instance.
NormaliseDisparity16b(maps) ==
    /\ call = Idle
    /\ \E disparity \in maps, ub \in CastOutcomes :
         LET out == normalise_disparity_16b(disparity, ub)
         IN  call' = Called("normalise_disparity_16b", disparity, out.res, out.err)
    /\ UNCHANGED <<phase, self, ran>>

NormaliseDisparity8b(maps) ==
    /\ call = Idle
    /\ \E disparity \in maps, ub \in CastOutcomes :
         LET out == normalise_disparity_8b(disparity, ub)
         IN  call' = Called("normalise_disparity_8b", disparity, out.res, out.err)
    /\ UNCHANGED <<phase, self, ran>>

ShiftDispDown(maps) ==
    /\ call = Idle
    /\ \E disparity \in maps :
         call' = Called("shift_disp_down", disparity, shift_disp_down(disparity), NoError)
    /\ UNCHANGED <<phase, self, ran>>

\* The caller passes the map shift_disp_down returned to shift_disp_down again.
ShiftDispDownAgain ==
    /\ call.op = "shift_disp_down"
    /\ call.prev = Unset
    /\ call' = [Called("shift_disp_down", call.res, shift_disp_down(call.res), NoError)
                   EXCEPT !.prev = Some(call.arg)]
    /\ UNCHANGED <<phase, self, ran>>

\* The caller takes the result (or the exception) of the call.
Return ==
    /\ call # Idle
    /\ call' = Idle
    /\ UNCHANGED <<phase, self, ran>>

\* Every call on an instance or on the class.
NextCalls ==
    \/ InitStereoParams
    \/ InitOpencvModelParams
    \/ InitOpencvfisheyeModelParams
    \/ ApplyRoiToDisparity
    \/ Remap
    \/ CalculateDisparity
    \/ BaselineMm
    \/ DisparityToDepthMm
    \/ PointsPxTo3dWorldSpace
    \/ NormaliseDisparity16b(FewMaps)
    \/ NormaliseDisparity8b(FewMaps)
    \/ ShiftDispDown(FewMaps)
    \/ ShiftDispDownAgain
    \/ Return

Next == Construct \/ NextCalls

\* An instance through its life: construction, then any calls.
Spec == Init /\ [][Next]_vars

\* The static methods alone, on every map of DispMaps.
NextStatic ==
    \/ NormaliseDisparity16b(DispMaps)
    \/ NormaliseDisparity8b(DispMaps)
    \/ ShiftDispDown(DispMaps)
    \/ ShiftDispDownAgain
    \/ Return

SpecStatic == Init /\ [][NextStatic]_vars

\* Tuples that are no (x, y, w, h).
MalformedRois == {<<>>, <<1>>, <<0, 1>>, <<1, 2, 3>>, <<0, 0, 1, 1, 1>>}

\* An instance constructed over a stereoRectify whose left ROI may be any
\* tuple, as a test of apply_roi_to_disparity sets it up.
InitRoi ==
    /\ phase = "ready"
    /\ call = Idle
    /\ \E left \in Calibrations, right \in Calibrations :
         \E roi1 \in RoiChoices(<<left.image_width, left.image_height>>) \cup MalformedRois,
            roi2 \in RoiChoicesRight(<<left.image_width, left.image_height>>) :
            LET out == StereoProcessorInit(left, right, roi1, roi2)
            IN  /\ out.err = NoError
                /\ self = out.self
                /\ ran = out.ran

SpecRoi == InitRoi /\ [][NextCalls]_vars

\* ------------------------------------------------------------------ claims
InstanceOps ==
    {"apply_roi_to_disparity", "remap", "calculate_disparity", "baseline_mm",
     "disparity_to_depth_mm", "points_px_to_3d_world_space",
     "init_stereo_params", "init_opencv_model_params", "init_opencvfisheye_model_params"}

\* The calls C10 is about, and the return from one.
ListedCalls ==
    {"remap", "apply_roi_to_disparity", "calculate_disparity", "baseline_mm",
     "normalise_disparity_16b", "normalise_disparity_8b", "shift_disp_down",
     "disparity_to_depth_mm", "points_px_to_3d_world_space", "idle"}

\* The rectification path of a supported camera model.
PathOf(model) == IF model = "OpenCV" THEN "opencv" ELSE "fisheye"

\* Whether two calibrations differ in width, height or camera model.
Differ(l, r) ==
    \/ l.image_width # r.image_width
    \/ l.image_height # r.image_height
    \/ l.camera_model # r.camera_model

\* No attribute that __init__ derives from the calibrations is set.
NothingDerived(s) ==
    /\ s.image_size = Unset /\ s.camera_model = Unset
    /\ s.r1 = Unset /\ s.r2 = Unset /\ s.R = Unset /\ s.T = Unset
    /\ s.params = Unset /\ s.map_left = Unset /\ s.map_right = Unset

\* C1: construction from calibrations that differ in image_width, image_height
\* or camera_model raises ValueError with no derived state computed (no pose,
\* no rectification parameters, no remap tables, no rectification path run);
\* construction from calibrations that agree on all three never raises it.
C1_MismatchRaisesFirst ==
    self.calibration_left # Unset =>
        LET l == Val(self.calibration_left)
            r == Val(self.calibration_right)
        IN  /\ Differ(l, r) =>
                /\ phase = "failed"
                /\ NothingDerived(self)
                /\ ran = <<>>
                /\ call.op = "__init__" => call.err = "ValueError"
            /\ ~Differ(l, r) => (call.op = "__init__" => call.err # "ValueError")

\* C1's case: construction has raised on two calibrations that differ in the
\* camera model alone.
C1_Witness ==
    /\ call.op = "__init__"
    /\ call.err = "ValueError"
    /\ call.arg[1].camera_model # call.arg[2].camera_model
    /\ call.arg[1].image_width = call.arg[2].image_width
    /\ call.arg[1].image_height = call.arg[2].image_height

\* C2: for matching calibrations of a model that is neither OpenCV nor
\* OpenCVFisheye, construction raises NotImplementedError: no instance is
\* ready, no rectification path has run, no parameters or tables exist, and
\* no instance method is ever called on it; for a supported model construction
\* runs exactly the path of that model, once.
C2_UnsupportedModelAtConstruction ==
    /\ (call.op = "__init__" /\ ~Differ(call.arg[1], call.arg[2])) =>
          IF call.arg[1].camera_model = "OpenCV"
          THEN /\ call.err = NoError /\ phase = "ready" /\ ran = <<"opencv">>
               /\ Val(self.params).R1.fn = "cv2.stereoRectify"
               /\ Val(self.map_left).fn = "cv2.initUndistortRectifyMap"
               /\ Val(self.map_right).fn = "cv2.initUndistortRectifyMap"
          ELSE IF call.arg[1].camera_model = "OpenCVFisheye"
          THEN /\ call.err = NoError /\ phase = "ready" /\ ran = <<"fisheye">>
               /\ Val(self.params).R1.fn = "cv2.fisheye.stereoRectify"
               /\ Val(self.map_left).fn = "cv2.fisheye.initUndistortRectifyMap"
               /\ Val(self.map_right).fn = "cv2.fisheye.initUndistortRectifyMap"
          ELSE /\ call.err = "NotImplementedError" /\ phase = "failed" /\ ran = <<>>
               /\ self.params = Unset /\ self.map_left = Unset /\ self.map_right = Unset
    /\ phase = "ready" =>
          /\ Val(self.camera_model) \in {"OpenCV", "OpenCVFisheye"}
          /\ ran # <<>>
          /\ ran[1] = PathOf(Val(self.camera_model))
    /\ call.op \in InstanceOps => phase = "ready"

\* C2's case: construction has raised on matching calibrations of a third model.
C2_Witness ==
    /\ call.op = "__init__"
    /\ call.err = "NotImplementedError"
    /\ ~Differ(call.arg[1], call.arg[2])
    /\ call.arg[1].camera_model = "Other"

C5_RoiMask ==
    (call.op = "apply_roi_to_disparity" /\ Val(self.params).validROI1 # Unset) =>
        LET roi == Val(Val(self.params).validROI1)
        IN  Len(roi) = 4 =>
              /\ call.err = NoError
              /\ call.res.h = call.arg.h
              /\ call.res.w = call.arg.w
              /\ \A r \in 0..(call.arg.h - 1), c \in 0..(call.arg.w - 1) :
                    At(call.res, r + 1, c + 1) =
                        IF /\ roi[1] <= c /\ c < roi[1] + roi[3]
                           /\ roi[2] <= r /\ r < roi[2] + roi[4]
                        THEN At(call.arg, r + 1, c + 1)
                        ELSE Fin(0)

\* C5's case: a 2 x 2 map masked by the ROI (1, 0, 1, 2), its right column.
C5_Witness ==
    /\ call.op = "apply_roi_to_disparity"
    /\ call.err = NoError
    /\ Val(self.params).validROI1 = Some(<<1, 0, 1, 2>>)
    /\ call.arg.h = 2 /\ call.arg.w = 2
    /\ At(call.res, 1, 1) = Fin(0) /\ At(call.res, 2, 2) = At(call.arg, 2, 2)

\* C10: once construction has completed, no call of remap,
\* apply_roi_to_disparity, calculate_disparity, baseline_mm, the two
\* normalisers, shift_disp_down, disparity_to_depth_mm or
\* points_px_to_3d_world_space, returning or raising, changes the cached
\* derived state (image_size, camera_model, R, T, params, remap tables), runs
\* a rectification path again, or ends the instance.
C10_DerivedStateFrozen ==
    [][(phase = "ready" /\ call'.op \in ListedCalls) =>
          /\ phase' = "ready"
          /\ Derived(self') = Derived(self)
          /\ self' = self
          /\ ran' = ran]_vars

\* C10's case: a call on a constructed instance has raised.
C10_Witness ==
    /\ phase = "ready"
    /\ call.op = "points_px_to_3d_world_space"
    /\ call.err = "ValueError"
    /\ self.params # Unset

\* Helpers of the claims on maps and point arrays.
AllFinite(m) == \A i \in 1..Len(m.d) : IsFinite(m.d[i])
Pixels(m) == {m.d[i] : i \in 1..Len(m.d)}
Positive(m) == {v \in Pixels(m) : FLt(Fin(0), v)}
Least(S) == CHOOSE v \in S : \A u \in S : FLe(v, u)
Greatest(S) == CHOOSE v \in S : \A u \in S : FLe(u, v)
ClampAtZero(v) == IF FLt(v, Fin(0)) THEN Fin(0) ELSE v
LessClamped(m, k) == Mat(m.h, m.w, [i \in 1..Len(m.d) |-> ClampAtZero(FSub(m.d[i], k))])

\* C3: points_px_to_3d_world_space raises ValueError for every array of one or
\* more rows that is not N x 3 (N x 2, N x 4), whatever its element count.
C3_NonNx3Rejected ==
    (/\ call.op = "points_px_to_3d_world_space"
     /\ Len(call.arg.shape) = 2
     /\ call.arg.shape[1] >= 1
     /\ call.arg.shape[2] # 3) => call.err = "ValueError"

\* C6: on a map of finite values, shift_disp_down returns max(0, v - (m + 1))
\* at every pixel v, m the least strictly positive pixel, when the map's
\* maximum is > 0, and the map itself otherwise.
C6_ShiftByLeastPositive ==
    (call.op = "shift_disp_down" /\ AllFinite(call.arg)) =>
        IF FLt(Fin(0), Greatest(Pixels(call.arg)))
        THEN call.res = LessClamped(call.arg, FAdd(Least(Positive(call.arg)), Fin(1)))
        ELSE call.res = call.arg

\* C7: on a map of finite values, normalise_disparity_16b (M = 65535) and
\* normalise_disparity_8b (M = 255) raise nothing and map every pixel v to
\* trunc(v / old_max * M), a value in 0 .. M, old_max the map's maximum or 1
\* when that is <= 0; a pixel holding a maximum > 0 maps to M.
C7_NormaliseIntoRange ==
    (call.op \in {"normalise_disparity_16b", "normalise_disparity_8b"} /\ AllFinite(call.arg)) =>
        LET M == IF call.op = "normalise_disparity_16b" THEN 65535 ELSE 255
            top == Greatest(Pixels(call.arg))
            old_max == IF FLe(top, Fin(0)) THEN Fin(1) ELSE top
        IN  /\ call.err = NoError
            /\ \A i \in 1..Len(call.arg.d) :
                  LET t == Trunc(FMul(FDiv(call.arg.d[i], old_max), Fin(M)))
                  IN  /\ call.res.d[i] = t
                      /\ 0 <= t /\ t <= M
                      /\ (FLt(Fin(0), top) /\ call.arg.d[i] = top) => call.res.d[i] = M

\* The row points_px_to_3d_world_space owes the point (u, v, d): z = baseline *
\* focal length / d, x = (u - cx) / fx * z, y = (v - cy) / fy * z, on the left
\* camera's intrinsics.
RowOwed(s, u, v, d) ==
    LET K == Val(s.calibration_left).cameraMatrix
        z == FDiv(FMul(baseline_mm(s), Fin(K[1][1])), d)
    IN  <<FMul(FDiv(FSub(u, Fin(K[1][3])), Fin(K[1][1])), z),
          FMul(FDiv(FSub(v, Fin(K[2][3])), Fin(K[2][2])), z),
          z>>

RowsAsOwed(s, arg, res) ==
    /\ Len(res.d) = Len(arg.d)
    /\ \A i \in 1..(Len(arg.d) \div 3) :
          /\ SubSeq(res.d, 3 * i - 2, 3 * i) =
                 RowOwed(s, arg.d[3 * i - 2], arg.d[3 * i - 1], arg.d[3 * i])
          /\ res.d[3 * i] = disparity_to_depth_mm(s, arg.d[3 * i])

\* C8: for an N x 3 array of points, N >= 0, points_px_to_3d_world_space
\* returns an N x 3 array whose i-th row is the row owed to the i-th point.
C8_RowPerPoint ==
    (/\ call.op = "points_px_to_3d_world_space"
     /\ Len(call.arg.shape) = 2
     /\ call.arg.shape[2] = 3) =>
        /\ call.err = NoError
        /\ call.res.shape = call.arg.shape
        /\ RowsAsOwed(self, call.arg, call.res)

\* C8 for N >= 1, which the code meets.
C8_RowPerPointNonEmpty ==
    (/\ call.op = "points_px_to_3d_world_space"
     /\ Len(call.arg.shape) = 2
     /\ call.arg.shape[2] = 3
     /\ call.arg.shape[1] >= 1) =>
        /\ call.err = NoError
        /\ call.res.shape = call.arg.shape
        /\ RowsAsOwed(self, call.arg, call.res)

\* C9 as first stated: when shift_disp_down is applied to the result of
\* shift_disp_down on a map with maximum > 0, and the least positive value of
\* that result is 1, the second application returns its argument.
C9_SecondShiftNoOp ==
    (/\ call.op = "shift_disp_down"
     /\ call.prev # Unset
     /\ AllFinite(Val(call.prev))
     /\ FLt(Fin(0), Greatest(Pixels(Val(call.prev))))
     /\ Positive(call.arg) # {}
     /\ Least(Positive(call.arg)) = Fin(1)) => call.res = call.arg

\* C9 as amended: when shift_disp_down is applied to the result of
\* shift_disp_down on a finite map with maximum > 0, it returns its argument
\* exactly when that argument has no strictly positive pixel; when the least
\* positive pixel of the argument is 1 it returns max(0, v - 2) at every pixel.
C9_SecondShiftNoOpOnlyAtZero ==
    (/\ call.op = "shift_disp_down"
     /\ call.prev # Unset
     /\ AllFinite(Val(call.prev))
     /\ FLt(Fin(0), Greatest(Pixels(Val(call.prev))))) =>
        /\ (call.res = call.arg) <=> (Positive(call.arg) = {})
        /\ (Positive(call.arg) # {} /\ Least(Positive(call.arg)) = Fin(1)) =>
               call.res = LessClamped(call.arg, Fin(2))

\* C9's case: the second application on the result, of least positive pixel 1,
\* of the first on a map without negative pixels.
C9_Witness ==
    /\ call.op = "shift_disp_down"
    /\ call.prev # Unset
    /\ AllFinite(Val(call.prev))
    /\ \A v \in Pixels(Val(call.prev)) : FLe(Fin(0), v)
    /\ FLt(Fin(0), Greatest(Pixels(Val(call.prev))))
    /\ Positive(call.arg) # {}
    /\ Least(Positive(call.arg)) = Fin(1)
    /\ call.res # call.arg

====
